---- MODULE Spec2Model ----
(***************************************************************************)
(* Model of the sfs-python core: tapering windows (sfs/tapering.py), the   *)
(* synthesis sum (sfs/mono/synthesized.py) and the driving functions and   *)
(* secondary source selection (sfs/mono/drivingfunction.py).               *)
(*                                                                         *)
(* Every entry point is a pure function of its arguments.  A state is one  *)
(* call: `call` holds the function name and its arguments, `ret` holds     *)
(* what the call produced (a value or the exception it raised).  Init      *)
(* draws the arguments from bounded sets; one action per function applies  *)
(* it.  numpy arrays are functions over 0..N-1, as in the source.          *)
(***************************************************************************)
EXTENDS Integers, FiniteSets, Sequences, TLC

VARIABLES call, ret

vars == <<call, ret>>

(* ---------------------------- bounds ----------------------------------- *)

\* longest mask enumerated exhaustively
MaxLen == 6

\* alpha is the rational call.par / AlphaDen
AlphaDen == 4

\* most driving weights and secondary sources of a synthesis call
MaxSrc == 3

\* most secondary sources of a driving-function call
MaxSources == 8

\* most secondary sources of a source-selection call
MaxSel == 2

\* largest selection tolerance (in units of the coordinates' products)
MaxTol == 1

\* length of the masks of the module docstring (np.zeros(101), np.ones(101))
DocLen == 101

(* ------------------------- numpy primitives ---------------------------- *)

Pending == [st |-> "pending"]

Returned(v) == [st |-> "returned", value |-> v]

Raised(e) == [st |-> "raised", exc |-> e]

\* len() of a one-dimensional array
Len0(a) == Cardinality(DOMAIN a)

np_arange(n) == [i \in 0..(n - 1) |-> i]

np_count_nonzero(a) == Cardinality({i \in DOMAIN a : a[i]})

np_all(a) == \A i \in DOMAIN a : a[i]

\* active.astype(int)
astype_int(a) == [i \in DOMAIN a |-> IF a[i] THEN 1 ELSE 0]

\* np.diff: out[i] = a[i+1] - a[i], one entry shorter than a
np_diff(a) == [i \in 0..(Len0(a) - 2) |-> a[i + 1] - a[i]]

\* np.argmax of a non-empty array: the first index holding the maximum
np_argmax(a) ==
    CHOOSE i \in DOMAIN a :
        /\ \A j \in DOMAIN a : a[j] <= a[i]
        /\ \A j \in DOMAIN a : j < i => a[j] < a[i]

\* np.roll with the shift applied in the opposite direction
np_roll_reversed(a, shift) == [i \in DOMAIN a |-> a[(i + shift) % Len0(a)]]

\* np.roll(a, shift): the entry at i moves to (i + shift) mod len(a)
np_roll(a, shift) == [i \in DOMAIN a |-> a[(i - shift) % Len0(a)]]

\* a[:n + 1]: a cut that keeps one entry too many
SliceTo_inclusive(a, n) ==
    [i \in 0..((IF n + 1 < Len0(a) THEN n + 1 ELSE Len0(a)) - 1) |-> a[i]]

\* a[:n] for 0 <= n
SliceTo(a, n) == [i \in 0..((IF n < Len0(a) THEN n ELSE Len0(a)) - 1) |-> a[i]]

\* a[1:-1]
SliceInner(a) == [i \in 0..(Len0(a) - 3) |-> a[i + 1]]

\* np.clip on the numerators of alpha
np_clip(x, lo, hi) == IF x < lo THEN lo ELSE IF x > hi THEN hi ELSE x

(* --------------------------- window samples ---------------------------- *)
\* A float of a window is kept symbolically: which sample of which design
\* window it is.  Zero is the 0.0 of np.zeros, One the 1.0 of np.ones.

Zero == [kind |-> "zero", j |-> 0]

One == [kind |-> "one", j |-> 0]

np_zeros(n) == [i \in 0..(n - 1) |-> Zero]

\* np.kaiser(M, beta): M samples; a window of one sample is [1.0]
np_kaiser(M, beta) ==
    [k \in 0..(M - 1) |->
        IF M = 1 THEN One ELSE [kind |-> "kaiser", j |-> k]]

\* the Tukey design of tukey(): L + 2 points x[j] = j / (L + 1), ones
\* overwritten by the rising cosine where x < alpha/2 and then by the falling
\* cosine where x >= 1 - alpha/2 (alpha = a / AlphaDen, 0 < a <= AlphaDen)
tukey_design(L, a) ==
    [j \in 0..(L + 1) |->
        IF 2 * AlphaDen * j >= (2 * AlphaDen - a) * (L + 1)
        THEN [kind |-> "cos_fall", j |-> j]
        ELSE IF 2 * AlphaDen * j < a * (L + 1)
             THEN [kind |-> "cos_rise", j |-> j]
             ELSE One]

\* base[idx] = values (fancy-index assignment; a repeated index keeps the
\* last value written).  IndexError for an index outside the array,
\* ValueError when values cannot be broadcast to idx.
PutAt(base, idx, values) ==
    IF \E k \in DOMAIN idx : idx[k] \notin DOMAIN base
    THEN Raised("IndexError")
    ELSE IF Len0(values) # Len0(idx)
    THEN Raised("ValueError")
    ELSE Returned(
        [dtype |-> "float64",
         data |-> [i \in DOMAIN base |->
            IF \E k \in DOMAIN idx : idx[k] = i
            THEN LET last == CHOOSE k \in DOMAIN idx :
                        /\ idx[k] = i
                        /\ \A k2 \in DOMAIN idx : idx[k2] = i => k2 <= k
                 IN values[last]
            ELSE base[i]]])

(* ----------------------------- tapering.py ----------------------------- *)

\* first_idx without the "+ 1" that turns the edge of the difference
\* sequence into the index of the first active entry
first_idx_of_edge(active) ==
    IF Len0(active) = 0
    THEN Raised("IndexError")
    ELSE IF (active[0] /\ ~active[Len0(active) - 1]) \/ np_all(active)
    THEN Returned(0)
    ELSE IF Len0(np_diff(astype_int(active))) = 0
    THEN Raised("ValueError")
    ELSE Returned(np_argmax(np_diff(astype_int(active))))

\* first_idx of _windowidx; active[0] on an empty array raises IndexError,
\* np.argmax of the empty np.diff of a one-entry array raises ValueError
first_idx_of(active) ==
    IF Len0(active) = 0
    THEN Raised("IndexError")
    ELSE IF (active[0] /\ ~active[Len0(active) - 1]) \/ np_all(active)
    THEN Returned(0)
    ELSE IF Len0(np_diff(astype_int(active))) = 0
    THEN Raised("ValueError")
    ELSE Returned(np_argmax(np_diff(astype_int(active))) + 1)

\* _windowidx without the roll: the first count_nonzero indices of the array
_windowidx_unrolled(active) ==
    LET f == first_idx_of(active) IN
    IF f.st = "raised"
    THEN f
    ELSE [st |-> "returned",
          first_idx |-> f.value,
          value |-> SliceTo(np_arange(Len0(active)), np_count_nonzero(active))]

\* _windowidx(active): the rolled index vector cut to the number of active
\* entries (first_idx is kept in the result for the claims about it)
_windowidx(active) ==
    LET f == first_idx_of(active) IN
    IF f.st = "raised"
    THEN f
    ELSE [st |-> "returned",
          first_idx |-> f.value,
          value |-> SliceTo(np_roll(np_arange(Len0(active)), -f.value),
                            np_count_nonzero(active))]

\* none(active): the mask itself
none(active) == Returned([dtype |-> "bool", data |-> active])

kaiser(active, beta) ==
    LET w == _windowidx(active) IN
    IF w.st = "raised"
    THEN w
    ELSE PutAt(np_zeros(Len0(active)), w.value, np_kaiser(Len0(w.value), beta))

tukey(active, alpha) ==
    LET w == _windowidx(active)
        a == np_clip(alpha, 0, AlphaDen)
    IN  IF w.st = "raised"
        THEN w
        ELSE IF a = 0
        THEN none(active)
        ELSE PutAt(np_zeros(Len0(active)), w.value,
                   SliceInner(tukey_design(Len0(w.value), a)))


(* --------------------------- synthesized.py ---------------------------- *)

\* np.squeeze(np.asarray(d)) of a vector of weights: a vector of one entry
\* loses its only axis and becomes a 0-dimensional array
np_squeeze(d) ==
    IF Len0(d) = 1
    THEN [ndim |-> 0, data |-> d]
    ELSE [ndim |-> 1, data |-> d]

\* len(a): TypeError ("len() of unsized object") for a 0-dimensional array
py_len(a) ==
    IF a.ndim = 0 THEN Raised("TypeError") ELSE Returned(Len0(a.data))

\* the Green's function `source` evaluated for one secondary source: the
\* field of a source at `position`, kept symbolically
point(position) == [G |-> position]

\* the loop of generic(): the terms weight * source(...) added to p, in order,
\* and the number of evaluations of `source`.  p is kept as the sequence of
\* the terms added to the initial 0.
RECURSIVE generic_loop(_, _, _, _)
generic_loop(d, x0, k, acc) ==
    IF k >= Len0(d) \/ k >= Len0(x0)
    THEN acc
    ELSE generic_loop(d, x0, k + 1,
            IF d[k] # 0
            THEN [p |-> Append(acc.p, [weight |-> d[k], field |-> point(x0[k])]),
                  evals |-> acc.evals + 1]
            ELSE acc)

\* generic(omega, x0, d, grid, c, source)
generic(d, x0) ==
    LET sq == np_squeeze(d)
        n == py_len(sq)
    IN  IF n.st = "raised"
        THEN [st |-> "raised", exc |-> n.exc, evals |-> 0]
        ELSE IF n.value # Len0(x0)
        THEN [st |-> "raised", exc |-> "ValueError", evals |-> 0]
        ELSE LET r == generic_loop(sq.data, x0, 0, [p |-> << >>, evals |-> 0])
             IN  [st |-> "returned", value |-> r.p, evals |-> r.evals]

(* ------------------- drivingfunction.py: selection --------------------- *)

\* the inner product of two 3-vectors
dot3(u, v) == u[1] * v[1] + u[2] * v[2] + u[3] * v[3]

\* np.inner(n, n0) of a vector and an array of vectors: one product per row
np_inner(n, n0) == [i \in DOMAIN n0 |-> dot3(n, n0[i])]

\* ds = x0 - xs, xs broadcast over the rows of x0
minus_rows(x0, xs) ==
    [i \in DOMAIN x0 |-> <<x0[i][1] - xs[1], x0[i][2] - xs[2], x0[i][3] - xs[3]>>]

\* inner1d(a, b): the row-wise inner product of two arrays of vectors
inner1d(a, b) == [i \in DOMAIN a |-> dot3(a[i], b[i])]

\* source_selection_plane(n0, n) with defs.selection_tolerance = tol
source_selection_plane(n0, n, tol) ==
    LET v == np_inner(n, n0) IN Returned([i \in DOMAIN v |-> v[i] >= tol])

\* the selection of the docstring's formula: strictly above the tolerance
source_selection_point_strict(n0, x0, xs, tol) ==
    LET v == inner1d(minus_rows(x0, xs), n0)
    IN  Returned([i \in DOMAIN v |-> v[i] > tol])

\* source_selection_point(n0, x0, xs) with defs.selection_tolerance = tol
source_selection_point(n0, x0, xs, tol) ==
    LET v == inner1d(minus_rows(x0, xs), n0)
    IN  Returned([i \in DOMAIN v |-> v[i] >= tol])


(* ---------------- drivingfunction.py: driving functions ---------------- *)
\* A driving function is modelled by the shape of the array it returns: a
\* shape is the tuple of numpy, << >> for a scalar, <<N>> for N weights.

Scalar == << >>

Max2(a, b) == IF a >= b THEN a ELSE b

\* a shape padded on the left with 1s to rank n
PadShape(s, n) ==
    [i \in 1..n |-> IF i <= n - Len(s) THEN 1 ELSE s[i - (n - Len(s))]]

\* the shape of an elementwise operation on two arrays (numpy broadcasting;
\* the shapes that occur here are always compatible)
Broadcast(s, t) ==
    LET n == Max2(Len(s), Len(t))
        ps == PadShape(s, n)
        pt == PadShape(t, n)
    IN  [i \in 1..n |-> IF ps[i] = 1 THEN pt[i] ELSE ps[i]]

\* np.inner(a, b): the last axes are summed over
shape_inner(s, t) == SubSeq(s, 1, Len(s) - 1) \o SubSeq(t, 1, Len(t) - 1)

\* inner1d(a, b): broadcast, then the last axis is summed over
shape_inner1d(s, t) ==
    LET b == Broadcast(s, t) IN SubSeq(b, 1, Len(b) - 1)

\* np.linalg.norm(a, axis=1) of an (N, 3) array
shape_norm_axis1(s) == <<s[1]>>

\* np.linalg.norm(a) without an axis: one number for the whole array
shape_norm(s) == Scalar

\* x0[:, 0]
shape_column(s) == <<s[1]>>

\* the shape of x0 and n0 for N secondary sources
Rows(N) == <<N, 3>>

\* the shape of xs, n and xref after np.squeeze(np.asarray(...))
Vec3 == <<3>>

wfs_2d_line(N) ==
    LET ds == Broadcast(Rows(N), Vec3)
        r == shape_norm_axis1(ds)
    IN  Returned([shape |->
            Broadcast(Broadcast(shape_inner1d(ds, Rows(N)), r),
                      Broadcast(Scalar, r))])

_wfs_point(N) ==
    LET ds == Broadcast(Rows(N), Vec3)
        r == shape_norm_axis1(ds)
    IN  Returned([shape |->
            Broadcast(Broadcast(shape_inner1d(ds, Rows(N)), r), r)])

wfs_25d_point(N) ==
    LET ds == Broadcast(Rows(N), Vec3)
        r == shape_norm_axis1(ds)
        amp == shape_norm(Broadcast(Vec3, Rows(N)))
    IN  Returned([shape |->
            Broadcast(Broadcast(Broadcast(amp, shape_inner1d(ds, Rows(N))), r),
                      r)])

_wfs_plane(N) ==
    Returned([shape |->
        Broadcast(shape_inner(Vec3, Rows(N)), shape_inner(Vec3, Rows(N)))])

wfs_25d_plane(N) ==
    LET amp == shape_norm(Broadcast(Vec3, Rows(N)))
    IN  Returned([shape |->
            Broadcast(Broadcast(amp, shape_inner(Vec3, Rows(N))),
                      shape_inner(Vec3, Rows(N)))])

delay_3d_plane(N) == Returned([shape |-> shape_inner(Vec3, Rows(N))])

sdm_2d_line(N) ==
    LET ds == Broadcast(Rows(N), Vec3)
        r == shape_norm_axis1(ds)
    IN  Returned([shape |-> Broadcast(Broadcast(Scalar, r), r)])

sdm_2d_plane(N) ==
    Returned([shape |-> Broadcast(Scalar, shape_column(Rows(N)))])

sdm_25d_plane(N) ==
    Returned([shape |-> Broadcast(Scalar, shape_column(Rows(N)))])

sdm_25d_point(N) ==
    LET ds == Broadcast(Rows(N), Vec3)
        r == shape_norm_axis1(ds)
    IN  Returned([shape |-> Broadcast(Broadcast(Scalar, r), r)])

\* _hoa_order_2d(N)
_hoa_order_2d(N) == IF N % 2 = 0 THEN N \div 2 ELSE (N - 1) \div 2

\* a range that includes its upper end (the symmetric sum -M..M)
np_arange2_symmetric(lo, hi) == [i \in 0..(hi - lo) |-> lo + i]

\* np.arange(lo, hi): lo, lo + 1, ..., hi - 1
np_arange2(lo, hi) == [i \in 0..(hi - lo - 1) |-> lo + i]

Abs(m) == IF m < 0 THEN -m ELSE m

\* _sph_hn2(n, z) for a scalar z: two rows (the function and its derivative)
\* of the orders 0..n
shape_sph_hn2(n) == <<2, n + 1>>

\* the summation loop of the NFC-HOA functions over the orders ms: d starts as
\* the scalar 0 and each term has the shape of alpha0 - alpha.  `table` is the
\* shape of the precomputed array a, Scalar when the function has none; the
\* read a[0, abs(m)] raises IndexError outside the table.  acc records the
\* shape of d, the orders added so far and the table columns read.
RECURSIVE hoa_loop(_, _, _, _, _)
hoa_loop(ms, k, table, term, acc) ==
    IF k >= Len0(ms)
    THEN Returned(acc)
    ELSE IF table # Scalar /\ Abs(ms[k]) >= table[2]
    THEN Raised("IndexError")
    ELSE hoa_loop(ms, k + 1, table, term,
            [shape |-> Broadcast(acc.shape, term),
             orders |-> Append(acc.orders, ms[k]),
             reads |-> IF table = Scalar
                       THEN acc.reads
                       ELSE Append(acc.reads, Abs(ms[k])),
             M |-> acc.M])

nfchoa_2d_plane(N) ==
    LET alpha0 == shape_column(Rows(N))
        M == _hoa_order_2d(N)
    IN  hoa_loop(np_arange2(-M, M), 0, Scalar, Broadcast(Scalar, alpha0),
                 [shape |-> Scalar, orders |-> << >>, reads |-> << >>, M |-> M])

nfchoa_25d_point(N) ==
    LET alpha0 == shape_column(Rows(N))
        M == _hoa_order_2d(N)
        a == Broadcast(shape_sph_hn2(M), shape_sph_hn2(M))
    IN  hoa_loop(np_arange2(-M, M), 0, a, Broadcast(Scalar, alpha0),
                 [shape |-> Scalar, orders |-> << >>, reads |-> << >>, M |-> M])

nfchoa_25d_plane(N) ==
    LET alpha0 == shape_column(Rows(N))
        M == _hoa_order_2d(N)
        a == Broadcast(Scalar, shape_sph_hn2(M))
    IN  hoa_loop(np_arange2(-M, M), 0, a, Broadcast(Scalar, alpha0),
                 [shape |-> Scalar, orders |-> << >>, reads |-> << >>, M |-> M])

\* the driving function bound to each public name
DrivingFunction(fn, N) ==
    CASE fn = "wfs_2d_line" -> wfs_2d_line(N)
      [] fn \in {"wfs_2d_point", "wfs_3d_point"} -> _wfs_point(N)
      [] fn = "wfs_25d_point" -> wfs_25d_point(N)
      [] fn \in {"wfs_2d_plane", "wfs_3d_plane"} -> _wfs_plane(N)
      [] fn = "wfs_25d_plane" -> wfs_25d_plane(N)
      [] fn = "delay_3d_plane" -> delay_3d_plane(N)
      [] fn = "sdm_2d_line" -> sdm_2d_line(N)
      [] fn = "sdm_2d_plane" -> sdm_2d_plane(N)
      [] fn = "sdm_25d_plane" -> sdm_25d_plane(N)
      [] fn = "sdm_25d_point" -> sdm_25d_point(N)
      [] fn = "nfchoa_2d_plane" -> nfchoa_2d_plane(N)
      [] fn = "nfchoa_25d_point" -> nfchoa_25d_point(N)
      [] fn = "nfchoa_25d_plane" -> nfchoa_25d_plane(N)

(* ------------------------------ inputs --------------------------------- *)

\* active1 of the module docstring: active1[5:-5] = True
active1 == [i \in 0..(DocLen - 1) |-> 5 <= i /\ i < DocLen - 5]

\* active2 of the module docstring: active2[30:-10] = False
active2 == [i \in 0..(DocLen - 1) |-> ~(30 <= i /\ i < DocLen - 10)]

\* the mask active on {95..100, 0..4}
active3 == [i \in 0..(DocLen - 1) |-> i >= DocLen - 6 \/ i <= 4]

\* every mask over an array of 1..MaxLen secondary sources
Masks ==
    (UNION {[0..(n - 1) -> BOOLEAN] : n \in 1..MaxLen})
        \cup {active1, active2, active3}

Betas == {0, 7}

Alphas == (-1)..(AlphaDen + 1)

TaperCalls ==
    {[fn |-> "_windowidx", active |-> m, par |-> 0] : m \in Masks}
    \cup {[fn |-> "none", active |-> m, par |-> 0] : m \in Masks}
    \cup {[fn |-> "kaiser", active |-> m, par |-> b] : m \in Masks, b \in Betas}
    \cup {[fn |-> "tukey", active |-> m, par |-> a] : m \in Masks, a \in Alphas}

Weights == {0, 1, 2}

Positions == {1, 2}

GenericCalls ==
    {[fn |-> "generic", d |-> d, x0 |-> x0] :
        d \in UNION {[0..(n - 1) -> Weights] : n \in 0..MaxSrc},
        x0 \in UNION {[0..(n - 1) -> Positions] : n \in 0..(MaxSrc + 1)}}

\* normals and directions
Vecs == {<<1, 0, 0>>, <<0, 1, 0>>, <<-1, 0, 0>>, <<1, 1, 1>>}

\* positions of secondary sources and of the virtual source
Pts == {<<0, 0, 0>>, <<1, 0, 0>>, <<1, 1, 1>>}

Tolerances == 0..MaxTol

SelectionCalls ==
    {[fn |-> "source_selection_plane", n0 |-> n0, n |-> n, tol |-> t] :
        n0 \in UNION {[0..(k - 1) -> Vecs] : k \in 1..MaxSel},
        n \in Vecs, t \in Tolerances}
    \cup
    UNION {{[fn |-> "source_selection_point", n0 |-> n0, x0 |-> x0,
             xs |-> xs, tol |-> t] :
                n0 \in [0..(k - 1) -> Vecs], x0 \in [0..(k - 1) -> Pts],
                xs \in Pts, t \in Tolerances} : k \in 1..MaxSel}

WfsFns ==
    {"wfs_2d_line", "wfs_2d_point", "wfs_25d_point", "wfs_3d_point",
     "wfs_2d_plane", "wfs_25d_plane", "wfs_3d_plane"}

SdmFns == {"sdm_2d_line", "sdm_2d_plane", "sdm_25d_plane", "sdm_25d_point"}

HoaFns == {"nfchoa_2d_plane", "nfchoa_25d_point", "nfchoa_25d_plane"}

DrivingFns == WfsFns \cup SdmFns \cup HoaFns \cup {"delay_3d_plane"}

DrivingCalls == {[fn |-> f, N |-> n] : f \in DrivingFns, n \in 1..MaxSources}

(* ------------------------------ actions -------------------------------- *)

Call_windowidx ==
    /\ ret = Pending
    /\ call.fn = "_windowidx"
    /\ ret' = _windowidx(call.active)
    /\ UNCHANGED call

Call_none ==
    /\ ret = Pending
    /\ call.fn = "none"
    /\ ret' = none(call.active)
    /\ UNCHANGED call

Call_kaiser ==
    /\ ret = Pending
    /\ call.fn = "kaiser"
    /\ ret' = kaiser(call.active, call.par)
    /\ UNCHANGED call

Call_tukey ==
    /\ ret = Pending
    /\ call.fn = "tukey"
    /\ ret' = tukey(call.active, call.par)
    /\ UNCHANGED call

Call_generic ==
    /\ ret = Pending
    /\ call.fn = "generic"
    /\ ret' = generic(call.d, call.x0)
    /\ UNCHANGED call

Call_source_selection_plane ==
    /\ ret = Pending
    /\ call.fn = "source_selection_plane"
    /\ ret' = source_selection_plane(call.n0, call.n, call.tol)
    /\ UNCHANGED call

Call_source_selection_point ==
    /\ ret = Pending
    /\ call.fn = "source_selection_point"
    /\ ret' = source_selection_point(call.n0, call.x0, call.xs, call.tol)
    /\ UNCHANGED call

Call_wfs ==
    /\ ret = Pending
    /\ call.fn \in WfsFns
    /\ ret' = DrivingFunction(call.fn, call.N)
    /\ UNCHANGED call

Call_delay_3d_plane ==
    /\ ret = Pending
    /\ call.fn = "delay_3d_plane"
    /\ ret' = DrivingFunction(call.fn, call.N)
    /\ UNCHANGED call

Call_sdm ==
    /\ ret = Pending
    /\ call.fn \in SdmFns
    /\ ret' = DrivingFunction(call.fn, call.N)
    /\ UNCHANGED call

Call_nfchoa ==
    /\ ret = Pending
    /\ call.fn \in HoaFns
    /\ ret' = DrivingFunction(call.fn, call.N)
    /\ UNCHANGED call

Init ==
    /\ ret = Pending
    /\ \/ call \in TaperCalls
       \/ call \in GenericCalls
       \/ call \in SelectionCalls
       \/ call \in DrivingCalls

Next ==
    \/ Call_windowidx
    \/ Call_none
    \/ Call_kaiser
    \/ Call_tukey
    \/ Call_generic
    \/ Call_source_selection_plane
    \/ Call_source_selection_point
    \/ Call_wfs
    \/ Call_delay_3d_plane
    \/ Call_sdm
    \/ Call_nfchoa

Spec == Init /\ [][Next]_vars

(* ===================== claims about tapering.py ======================== *)

NumTrue(a) == Cardinality({i \in DOMAIN a : a[i]})

\* off-to-on boundaries on the ring of indices (index 0 follows index N-1)
RingRises(a) ==
    {i \in DOMAIN a : a[i] /\ ~a[(i - 1) % Len0(a)]}

\* the true entries form one non-empty connected run on the ring
SingleRun(a) == NumTrue(a) >= 1 /\ Cardinality(RingRises(a)) <= 1

\* the connected run wraps from index N-1 to index 0
Wraps(a) ==
    /\ SingleRun(a)
    /\ ~np_all(a)
    /\ a[0]
    /\ a[Len0(a) - 1]

\* off-to-on boundaries strictly inside the array
InnerRises(a) == {i \in DOMAIN a : i >= 1 /\ ~a[i - 1] /\ a[i]}

SetMin(S) == CHOOSE x \in S : \A y \in S : x <= y

\* the stated rule for the run start
RuleStart(a) == IF InnerRises(a) = {} THEN 0 ELSE SetMin(InnerRises(a))

IsZeroAt(w, i) ==
    IF w.dtype = "bool" THEN w.data[i] = FALSE ELSE w.data[i] = Zero

Done == ret # Pending

\* C3: for a mask whose true entries form a single connected run on the ring,
\* kaiser and tukey return a window of the mask's length that is exactly 0 at
\* every index where the mask is false.
C3_ZeroOutsideRun ==
    (Done /\ call.fn \in {"kaiser", "tukey"} /\ SingleRun(call.active)) =>
        /\ ret.st = "returned"
        /\ DOMAIN ret.value.data = DOMAIN call.active
        /\ \A i \in DOMAIN call.active :
              ~call.active[i] => IsZeroAt(ret.value, i)

\* a Kaiser window was placed on a run that wraps around the end of the array
C3_Witness ==
    /\ call.fn = "kaiser"
    /\ Wraps(call.active)
    /\ Len0(call.active) <= MaxLen
    /\ ret.st = "returned"
    /\ \E i \in DOMAIN call.active : ret.value.data[i] # Zero

\* the rotated contiguous order of a wrapped run: from the first active index
\* after the inactive stretch up to N-1, then 0, 1, ... to the last active one
RotatedOrder(a) ==
    LET N == Len0(a)
        s == CHOOSE i \in 1..(N - 1) : ~a[i - 1] /\ a[i]
        e == CHOOSE i \in 0..(N - 2) : a[i] /\ ~a[i + 1]
    IN  [k \in 0..(N - s + e) |-> IF k < N - s THEN s + k ELSE k - (N - s)]

\* C4: for a gap-free mask whose run wraps around the end of the array the
\* index sequence is the rotated contiguous order, and the Kaiser window is
\* laid out along it (sample k at the k-th index of that order, zeros
\* elsewhere); for the mask active on {95..100, 0..4} the order is
\* 95..100, 0..4 and for the documented active2 it is 91..100, 0..29.
C4_WrappedOrder ==
    (Done /\ call.fn \in {"_windowidx", "kaiser"} /\ Wraps(call.active)) =>
        /\ call.fn = "_windowidx" =>
            /\ ret.st = "returned"
            /\ ret.value = RotatedOrder(call.active)
            /\ {ret.value[k] : k \in DOMAIN ret.value}
                  = {i \in DOMAIN call.active : call.active[i]}
            /\ call.active = active3 =>
                  ret.value = [k \in 0..10 |-> IF k < 6 THEN 95 + k ELSE k - 6]
            /\ call.active = active2 =>
                  ret.value = [k \in 0..39 |-> IF k < 10 THEN 91 + k ELSE k - 10]
        /\ call.fn = "kaiser" =>
            /\ ret.st = "returned"
            /\ LET o == RotatedOrder(call.active) IN
               \A i \in DOMAIN call.active :
                  IF \E k \in DOMAIN o : o[k] = i
                  THEN \E k \in DOMAIN o :
                          /\ o[k] = i
                          /\ ret.value.data[i] = np_kaiser(Len0(o), call.par)[k]
                  ELSE ret.value.data[i] = Zero

\* the index vector of the mask active on {95..100, 0..4} was computed
C4_Witness ==
    /\ call.fn = "_windowidx"
    /\ call.active = active3
    /\ ret.st = "returned"
    /\ ret.value[0] = 95

\* C5: for every boolean mask of any length tukey(mask, 0) completes and
\* returns what none(mask) returns, the mask unchanged, whose sum is the
\* number of true entries.
C5_TukeyZeroIsNone ==
    (Done /\ call.fn = "tukey" /\ call.par = 0) =>
        /\ ret = none(call.active)
        /\ ret.st = "returned"
        /\ ret.value.data = call.active
        /\ NumTrue(ret.value.data) = np_count_nonzero(call.active)

\* C9 as stated: for every boolean mask the computed run start is 0 when no
\* off-to-on boundary lies strictly inside the array and otherwise the first
\* index i >= 1 with mask[i-1] false and mask[i] true.
C9_StartFollowsRule ==
    (Done /\ call.fn = "_windowidx" /\ ret.st = "returned") =>
        ret.first_idx = RuleStart(call.active)

\* C9 amended: for every mask with at least one active entry the call returns
\* and the run start follows the rule, except that a mask that starts active
\* and ends inactive gets start 0 whatever boundaries lie inside it.
C9_StartFollowsRuleAmended ==
    (Done /\ call.fn = "_windowidx" /\ NumTrue(call.active) >= 1) =>
        /\ ret.st = "returned"
        /\ ret.first_idx =
              IF call.active[0] /\ ~call.active[Len0(call.active) - 1]
              THEN 0
              ELSE RuleStart(call.active)

\* the start of a run that begins strictly inside the array was computed
C9_Witness ==
    /\ call.fn = "_windowidx"
    /\ InnerRises(call.active) # {}
    /\ ~call.active[0]
    /\ ret.st = "returned"
    /\ ret.first_idx >= 2

\* C10: for every mask of length N >= 2, gaps or not, _windowidx returns
\* count_nonzero(mask) pairwise distinct indices within 0..N-1, each the
\* previous one plus 1 modulo N; kaiser and tukey then write exactly that
\* many window samples and never index out of range.
C10_IndexVector ==
    (Done /\ call.fn \in {"_windowidx", "kaiser", "tukey"}
          /\ Len0(call.active) >= 2) =>
        /\ call.fn = "_windowidx" =>
            /\ ret.st = "returned"
            /\ Len0(ret.value) = np_count_nonzero(call.active)
            /\ \A k \in DOMAIN ret.value : ret.value[k] \in DOMAIN call.active
            /\ \A k, l \in DOMAIN ret.value :
                  k # l => ret.value[k] # ret.value[l]
            /\ \A k \in DOMAIN ret.value :
                  k >= 1 =>
                     ret.value[k] = (ret.value[k - 1] + 1) % Len0(call.active)
        /\ (call.fn = "kaiser"
              \/ (call.fn = "tukey" /\ np_clip(call.par, 0, AlphaDen) # 0)) =>
            /\ ret.st = "returned"
            /\ Cardinality({i \in DOMAIN ret.value.data :
                               ret.value.data[i] # Zero})
                  = np_count_nonzero(call.active)

\* the index vector of a mask with a gap in its active part was computed
C10_Witness ==
    /\ call.fn = "_windowidx"
    /\ Cardinality(RingRises(call.active)) >= 2
    /\ ret.st = "returned"
    /\ Len0(ret.value) >= 2

(* ==================== claims about synthesized.py ====================== *)

\* a with entry i removed
RemoveAt(a, i) ==
    [k \in 0..(Len0(a) - 2) |-> IF k < i THEN a[k] ELSE a[k + 1]]

\* C1: for every N >= 0, generic with N driving weights and N+1 source
\* positions fails with the length-mismatch ValueError, before the Green's
\* function is evaluated for any source.
C1_LengthMismatch ==
    (Done /\ call.fn = "generic" /\ Len0(call.x0) = Len0(call.d) + 1) =>
        /\ ret.st = "raised"
        /\ ret.exc = "ValueError"
        /\ ret.evals = 0

\* C2: for N >= 1 sources and N weights of which entry i is exactly 0, generic
\* returns the same field as generic called with source i and weight i removed.
C2_ZeroWeightSkip ==
    (Done /\ call.fn = "generic" /\ Len0(call.d) >= 1
          /\ Len0(call.d) = Len0(call.x0)) =>
        \A i \in DOMAIN call.d :
            call.d[i] = 0 =>
                LET other == generic(RemoveAt(call.d, i), RemoveAt(call.x0, i))
                IN  /\ ret.st = "returned"
                    /\ other.st = "returned"
                    /\ ret.value = other.value

(* =================== claims about drivingfunction.py =================== *)

\* C6: every driving function returns, for an array of N >= 1 secondary
\* sources, a sequence of exactly N weights.
C6_OneWeightPerSource ==
    (Done /\ call.fn \in DrivingFns /\ call.N >= 1) =>
        /\ ret.st = "returned"
        /\ ret.value.shape = <<call.N>>

====
